---------------------------- MODULE Spec2Model ----------------------------
(***************************************************************************)
(* A model of pv-migrate's rsync-over-SSH migration:                       *)
(*                                                                         *)
(*   - the retry script that the rsync job runs (scriptTemplate,           *)
(*     BuildRsyncScript), as a small shell state machine;                  *)
(*   - the strategy fallback engine behind `engine.New().Run(&m)`, which   *)
(*     buildMigrateCmd calls with the caller's --strategies list;          *)
(*   - RunRsyncJobOverSSH, createPSPResources and ensurePSP run by         *)
(*     concurrent migration instances against Kubernetes API servers.     *)
(*                                                                         *)
(* Each part has its own specification (SpecScript, SpecEngine, Spec) over *)
(* the module's variables; a specification holds the variables of the      *)
(* other parts fixed.                                                      *)
(***************************************************************************)
EXTENDS Naturals, Sequences, FiniteSets, TLC

VARIABLES
    \* ---- the retry script (one `sh -c` run of the templated script)
    script,      \* the `script` struct the template was executed with
    spc,         \* position in the script
    n,           \* shell variable n
    rc,          \* shell variable rc
    tool,        \* exit codes of the rsync invocations made so far, in order
    sleeps,      \* number of `sleep` commands completed
    elapsed,     \* seconds slept in total
    stdout,      \* lines echoed by the script itself
    exitStatus   \* exit status of the script, NotExited while it runs

VARIABLES
    \* ---- the `migrate` command and the fallback engine it calls
    flag,        \* the --strategies flag as given on the command line
    request,     \* the migration.Migration built by buildMigrateCmd
    applicable,  \* the strategies whose applicability check accepts the volumes
    resolvable,  \* whether both volumes can be resolved
    epc,         \* position of the engine's control thread
    idx,         \* index of the candidate under consideration
    attempt,     \* the strategy whose attempt is in flight, NoStrategy if none
    executed,    \* the strategies executed so far, in order
    outcomes,    \* whether each of these executions succeeded
    failures,    \* the per-strategy failures recorded so far, in order
    result,      \* what Run returned, "running" before it returns
    created      \* number of cluster objects the run has created

VARIABLES
    \* ---- migration instances running RunRsyncJobOverSSH against the clusters
    objects,     \* the objects held by the API servers of the clusters
    task,        \* per instance: its task.Task (ID, volumes, options)
    pc,          \* per instance: position in RunRsyncJobOverSSH
    loc,         \* per instance: local variables of RunRsyncJobOverSSH
    log,         \* per instance: the API calls it made and their results
    ret          \* per instance: what RunRsyncJobOverSSH returned

scriptVars == <<script, spc, n, rc, tool, sleeps, elapsed, stdout, exitStatus>>
engineVars == <<flag, request, applicable, resolvable, epc, idx, attempt,
                executed, outcomes, failures, result, created>>
clusterVars == <<objects, task, pc, loc, log, ret>>

vars == <<scriptVars, engineVars, clusterVars>>

OnlyScript == UNCHANGED <<engineVars, clusterVars>>
OnlyEngine == UNCHANGED <<scriptVars, clusterVars>>
OnlyCluster == UNCHANGED <<scriptVars, engineVars>>

Last(s) == s[Len(s)]

(***************************************************************************)
(* Constants of the rsync package.                                         *)
(***************************************************************************)
maxRetries == 10
retryIntervalSecs == 5
sshConnectTimeoutSecs == 5
pspName == "pv-migrate"

(***************************************************************************)
(* Bounds of the model.                                                    *)
(***************************************************************************)
\* The template is checked for every retry budget 1..ScriptMaxBudget, which
\* includes maxRetries, the one BuildRsyncScript uses.
ScriptMaxBudget == 10

\* Exit codes the rsync stub may return: success, and two different failures.
ToolExitCodes == {0, 1, 23}

NotExited == 255 + 1

(***************************************************************************)
(* BuildRsyncScript: the struct the template is executed with.  The shell  *)
(* control flow reads only MaxRetries and RetryIntervalSecs.               *)
(***************************************************************************)
BuildRsyncScript ==
    [MaxRetries            |-> maxRetries,
     SshConnectTimeoutSecs |-> sshConnectTimeoutSecs,
     RetryIntervalSecs     |-> retryIntervalSecs]

\* echo "rsync attempt $n/{{.MaxRetries}} failed, waiting ... seconds ..."
AttemptFailedMsg(k, s) == <<"rsync attempt failed", k, s.MaxRetries>>
\* echo "Rsync job failed after $retries retries"
ExhaustedMsg(r) == <<"Rsync job failed after retries", r, r>>

ScriptIdle ==
    /\ script = BuildRsyncScript
    /\ spc = "idle"
    /\ n = 0
    /\ rc = 0
    /\ tool = <<>>
    /\ sleeps = 0
    /\ elapsed = 0
    /\ stdout = <<>>
    /\ exitStatus = NotExited

\* n=0 ; rc=1 ; retries={{.MaxRetries}}
ScriptInit ==
    /\ script \in {[BuildRsyncScript EXCEPT !.MaxRetries = r] : r \in 1..ScriptMaxBudget}
    /\ spc = "until"
    /\ n = 0
    /\ rc = 1
    /\ tool = <<>>
    /\ sleeps = 0
    /\ elapsed = 0
    /\ stdout = <<>>
    /\ exitStatus = NotExited

\* faulty variant of the loop test: -gt for -ge
LoopTest_gt ==
    /\ spc = "until"
    /\ spc' = IF n > script.MaxRetries THEN "after" ELSE "rsync"
    /\ UNCHANGED <<script, n, rc, tool, sleeps, elapsed, stdout, exitStatus>>
    /\ OnlyScript

\* until [ "$n" -ge "$retries" ]
LoopTest ==
    /\ spc = "until"
    /\ spc' = IF n >= script.MaxRetries THEN "after" ELSE "rsync"
    /\ UNCHANGED <<script, n, rc, tool, sleeps, elapsed, stdout, exitStatus>>
    /\ OnlyScript

\* faulty variant of the rsync line: no break after rc=0
InvokeRsync_nobreak ==
    /\ spc = "rsync"
    /\ \E code \in ToolExitCodes :
          /\ tool' = Append(tool, code)
          /\ rc' = IF code = 0 THEN 0 ELSE rc
          /\ spc' = "count"
    /\ UNCHANGED <<script, n, sleeps, elapsed, stdout, exitStatus>>
    /\ OnlyScript

\* rsync ... /dest/ && rc=0 && break
InvokeRsync ==
    /\ spc = "rsync"
    /\ \E code \in ToolExitCodes :
          /\ tool' = Append(tool, code)
          /\ IF code = 0
               THEN rc' = 0 /\ spc' = "after"
               ELSE rc' = rc /\ spc' = "count"
    /\ UNCHANGED <<script, n, sleeps, elapsed, stdout, exitStatus>>
    /\ OnlyScript

\* n=$((n+1)) ; echo "rsync attempt $n/... failed, waiting ..."
CountAndEcho ==
    /\ spc = "count"
    /\ n' = n + 1
    /\ stdout' = Append(stdout, AttemptFailedMsg(n + 1, script))
    /\ spc' = "sleep"
    /\ UNCHANGED <<script, rc, tool, sleeps, elapsed, exitStatus>>
    /\ OnlyScript

\* sleep {{.RetryIntervalSecs}} ; done
Sleep ==
    /\ spc = "sleep"
    /\ sleeps' = sleeps + 1
    /\ elapsed' = elapsed + script.RetryIntervalSecs
    /\ spc' = "until"
    /\ UNCHANGED <<script, n, rc, tool, stdout, exitStatus>>
    /\ OnlyScript

\* if [ $rc -ne 0 ]; then echo "Rsync job failed ..." ; fi ; exit $rc
Finish ==
    /\ spc = "after"
    /\ stdout' = IF rc # 0 THEN Append(stdout, ExhaustedMsg(script.MaxRetries))
                           ELSE stdout
    /\ exitStatus' = rc
    /\ spc' = "exited"
    /\ UNCHANGED <<script, n, rc, tool, sleeps, elapsed>>
    /\ OnlyScript

ScriptNext ==
    \/ LoopTest
    \/ InvokeRsync
    \/ CountAndEcho
    \/ Sleep
    \/ Finish


(***************************************************************************)
(* The `migrate` command.  RunE reads the --strategies flag (its default   *)
(* is strategy.DefaultStrategies), puts the list unchanged into the        *)
(* Migration and hands it to engine.New().Run.                             *)
(***************************************************************************)
\* Bound on the length of a --strategies list.
MaxStrategies == 3

\* The strategy package: the strategies the engine knows and their default
\* order.
StrategyNames == {"mnt2", "svc", "lbsvc"}
DefaultStrategies == <<"mnt2", "svc", "lbsvc">>
\* A name that is no strategy's.
UnknownName == "bogus"
NoStrategy == ""

SeqsUpTo(S, k) == UNION {[1..m -> S] : m \in 0..k}

\* --strategies as the caller may give it: absent, or any list of names.
FlagValues ==
    {[given |-> FALSE, value |-> <<>>]} \cup
    {[given |-> TRUE, value |-> v] :
        v \in SeqsUpTo(StrategyNames \cup {UnknownName}, MaxStrategies)}

\* f.GetStringSlice(FlagStrategies)
GetStringSlice(f) == IF f.given THEN f.value ELSE DefaultStrategies

\* faulty variant: the flag is not read, the default list is always used
buildMigrateCmd_ignoresFlag(f) == [Strategies |-> DefaultStrategies]

\* m := migration.Migration{..., Strategies: strategies, ...}
buildMigrateCmd(f) == [Strategies |-> GetStringSlice(f)]

NoRequest == [Strategies |-> <<>>]

EngineIdle ==
    /\ flag = [given |-> FALSE, value |-> <<>>]
    /\ request = NoRequest
    /\ applicable = {}
    /\ resolvable = TRUE
    /\ epc = "idle"
    /\ idx = 0
    /\ attempt = NoStrategy
    /\ executed = <<>>
    /\ outcomes = <<>>
    /\ failures = <<>>
    /\ result = "running"
    /\ created = 0

\* The command line, and the facts about the two volumes the engine will
\* find in the clusters.
EngineInit ==
    /\ flag \in FlagValues
    /\ request = NoRequest
    /\ applicable \in SUBSET StrategyNames
    /\ resolvable \in BOOLEAN
    /\ epc = "cli"
    /\ idx = 0
    /\ attempt = NoStrategy
    /\ executed = <<>>
    /\ outcomes = <<>>
    /\ failures = <<>>
    /\ result = "running"
    /\ created = 0

\* RunE up to the call of engine.New().Run(&m)
RunE ==
    /\ epc = "cli"
    /\ request' = buildMigrateCmd(flag)
    /\ epc' = "validate"
    /\ UNCHANGED <<flag, applicable, resolvable, idx, attempt, executed,
                   outcomes, failures, result, created>>
    /\ OnlyEngine

(***************************************************************************)
(* The fallback engine, Run(request).  The candidate order is the caller's *)
(* list if given, else the default order.  An unknown name is a            *)
(* ConfigurationError, raised before the engine touches a cluster; then    *)
(* the volumes are resolved, and the candidates are tried in order.        *)
(***************************************************************************)
Candidates(r) == IF r.Strategies = <<>> THEN DefaultStrategies ELSE r.Strategies

HasUnknownName(r) == \E i \in 1..Len(r.Strategies) : r.Strategies[i] \notin StrategyNames

Skipped(name) == [strategy |-> name, outcome |-> "skipped: not applicable"]
Failed(name) == [strategy |-> name, outcome |-> "failed"]

ValidateNames ==
    /\ epc = "validate"
    /\ IF HasUnknownName(request)
         THEN result' = "ConfigurationError" /\ epc' = "done"
         ELSE result' = result /\ epc' = "resolve"
    /\ UNCHANGED <<flag, request, applicable, resolvable, idx, attempt,
                   executed, outcomes, failures, created>>
    /\ OnlyEngine

ResolveVolumes ==
    /\ epc = "resolve"
    /\ IF resolvable
         THEN result' = result /\ epc' = "loop" /\ idx' = 1
         ELSE result' = "ResolutionError" /\ epc' = "done" /\ idx' = idx
    /\ UNCHANGED <<flag, request, applicable, resolvable, attempt, executed,
                   outcomes, failures, created>>
    /\ OnlyEngine

SkipCandidate ==
    /\ epc = "loop"
    /\ idx <= Len(Candidates(request))
    /\ Candidates(request)[idx] \notin applicable
    /\ failures' = Append(failures, Skipped(Candidates(request)[idx]))
    /\ idx' = idx + 1
    /\ UNCHANGED <<flag, request, applicable, resolvable, epc, attempt,
                   executed, outcomes, result, created>>
    /\ OnlyEngine

\* execute() starts inside a fresh attempt and creates the attempt's objects
BeginAttempt ==
    /\ epc = "loop"
    /\ idx <= Len(Candidates(request))
    /\ Candidates(request)[idx] \in applicable
    /\ attempt' = Candidates(request)[idx]
    /\ executed' = Append(executed, Candidates(request)[idx])
    /\ created' = created + 1
    /\ epc' = "exec"
    /\ UNCHANGED <<flag, request, applicable, resolvable, idx, outcomes,
                   failures, result>>
    /\ OnlyEngine

\* faulty variant: the loop goes on to the next candidate after a success
EndAttempt_continues ==
    /\ epc = "exec"
    /\ \E ok \in BOOLEAN :
          /\ outcomes' = Append(outcomes, ok)
          /\ failures' = IF ok THEN failures ELSE Append(failures, Failed(attempt))
    /\ result' = result /\ epc' = "loop" /\ idx' = idx + 1
    /\ attempt' = NoStrategy
    /\ UNCHANGED <<flag, request, applicable, resolvable, executed, created>>
    /\ OnlyEngine

\* execute() returns: stop at success, else record the failure and go on
EndAttempt ==
    /\ epc = "exec"
    /\ \E ok \in BOOLEAN :
          /\ outcomes' = Append(outcomes, ok)
          /\ IF ok
               THEN /\ result' = "success" /\ epc' = "done"
                    /\ idx' = idx /\ failures' = failures
               ELSE /\ result' = result /\ epc' = "loop"
                    /\ idx' = idx + 1
                    /\ failures' = Append(failures, Failed(attempt))
    /\ attempt' = NoStrategy
    /\ UNCHANGED <<flag, request, applicable, resolvable, executed, created>>
    /\ OnlyEngine

Exhausted ==
    /\ epc = "loop"
    /\ idx > Len(Candidates(request))
    /\ result' = "AllStrategiesExhaustedError"
    /\ epc' = "done"
    /\ UNCHANGED <<flag, request, applicable, resolvable, idx, attempt,
                   executed, outcomes, failures, created>>
    /\ OnlyEngine

EngineNext ==
    \/ RunE
    \/ ValidateNames
    \/ ResolveVolumes
    \/ SkipCandidate
    \/ BeginAttempt
    \/ EndAttempt
    \/ Exhausted

(***************************************************************************)
(* The Kubernetes API as the code uses it: Create of a named object of a   *)
(* kind in a namespace of a cluster.  A Create of a name that exists is    *)
(* answered AlreadyExists; any Create may be refused for another reason.   *)
(***************************************************************************)
Tasks == {"t1", "t2"}

Key(o) == <<o.cluster, o.ns, o.kind, o.name>>
Exists(objs, o) == \E x \in objs : Key(x) = Key(o)

Responses(objs, o) ==
    (IF Exists(objs, o) THEN {"AlreadyExists"} ELSE {"Created"}) \cup {"Forbidden"}

Apply(objs, o, resp) == IF resp = "Created" THEN objs \cup {o} ELSE objs

\* the error value of a call: nil, or a status error naming reason and object
NoErr == [reason |-> "", kind |-> "", name |-> ""]
ErrOf(resp, o) ==
    IF resp = "Created" THEN NoErr
    ELSE [reason |-> resp, kind |-> o.kind, name |-> o.name]

\* errors.IsAlreadyExists(err)
IsAlreadyExists(err) == err.reason = "AlreadyExists"

Call(o, resp) ==
    [call |-> "create", cluster |-> o.cluster, ns |-> o.ns, kind |-> o.kind,
     name |-> o.name, res |-> resp]

Step(what, where, resp) ==
    [call |-> what, cluster |-> where.cluster, ns |-> where.ns, kind |-> "",
     name |-> "", res |-> resp]

Running == [done |-> FALSE, err |-> NoErr]
Returned(e) == [done |-> TRUE, err |-> e]

(***************************************************************************)
(* The objects the code builds.  `owner` is bookkeeping of the model: the  *)
(* instance whose request created the object.                              *)
(***************************************************************************)
\* k8s.Rsync, k8s.Sshd and k8s.ComponentLabels
Rsync == "rsync"
Sshd == "sshd"
ComponentTags == {Rsync, Sshd}
ComponentLabels(id, component) == {<<"instance", id>>, <<"component", component>>}
NoLabels == {}

\* ensurePSP: the PodSecurityPolicy `pv-migrate`, cluster-scoped
PodSecurityPolicy(c, t) ==
    [cluster |-> c, ns |-> "", kind |-> "PodSecurityPolicy", name |-> pspName,
     labels |-> NoLabels, owner |-> t,
     spec |-> [RunAsUser |-> "RunAsAny", RunAsGroup |-> "RunAsAny",
               FSGroup |-> "RunAsAny", SELinux |-> "RunAsAny",
               SupplementalGroups |-> "RunAsAny",
               Volumes |-> {"secret", "persistentVolumeClaim"}]]

\* createPSPResources: name := fmt.Sprintf("pv-migrate-%s", id)
PSPResourceName(id) == "pv-migrate-" \o id

ServiceAccount(c, ns, id, t) ==
    [cluster |-> c, ns |-> ns, kind |-> "ServiceAccount",
     name |-> PSPResourceName(id), labels |-> NoLabels, owner |-> t,
     spec |-> [a |-> {}]]

\* faulty variant: the rule without ResourceNames, which is every policy
Role_anyPolicy(c, ns, id, t) ==
    [cluster |-> c, ns |-> ns, kind |-> "Role",
     name |-> PSPResourceName(id), labels |-> NoLabels, owner |-> t,
     spec |-> [Rules |-> {[Verbs |-> {"use"}, APIGroups |-> {"policy"},
                           Resources |-> {"podsecuritypolicies"},
                           ResourceNames |-> {}]}]]

Role(c, ns, id, t) ==
    [cluster |-> c, ns |-> ns, kind |-> "Role",
     name |-> PSPResourceName(id), labels |-> NoLabels, owner |-> t,
     spec |-> [Rules |-> {[Verbs |-> {"use"}, APIGroups |-> {"policy"},
                           Resources |-> {"podsecuritypolicies"},
                           ResourceNames |-> {pspName}]}]]

RoleBinding(c, ns, id, t) ==
    [cluster |-> c, ns |-> ns, kind |-> "RoleBinding",
     name |-> PSPResourceName(id), labels |-> NoLabels, owner |-> t,
     spec |-> [Subjects |-> {[Kind |-> "ServiceAccount",
                              Name |-> PSPResourceName(id)]},
               RoleRef |-> [APIGroup |-> "rbac.authorization.k8s.io",
                            Kind |-> "Role", Name |-> PSPResourceName(id)]]]

\* createRsyncPrivateKeySecret
RsyncName(id) == "pv-migrate-rsync-" \o id

RsyncPrivateKeySecret(c, ns, id, privateKey, t) ==
    [cluster |-> c, ns |-> ns, kind |-> "Secret", name |-> RsyncName(id),
     labels |-> ComponentLabels(id, Rsync), owner |-> t,
     spec |-> [Data |-> {<<"privateKey", privateKey>>}]]

\* buildRsyncJobDest
jobTTLSeconds == 600
backoffLimit == 0
permissions == 256

\* the status of a job that has run no pod yet
NoRuns == [Runs |-> <<>>]

\* faulty variant: a backoff limit that lets the job run a second pod
RsyncJobDest_oneRetry(c, ns, id, targetHost, privateKeySecretName, svcAccName, t) ==
    [cluster |-> c, ns |-> ns, kind |-> "Job", name |-> RsyncName(id),
     labels |-> NoLabels, owner |-> t,
     spec |-> [BackoffLimit |-> backoffLimit + 1,
               TTLSecondsAfterFinished |-> jobTTLSeconds,
               TemplateLabels |-> ComponentLabels(id, Rsync),
               ServiceAccountName |-> svcAccName,
               SecretName |-> privateKeySecretName,
               DefaultMode |-> permissions,
               Script |-> BuildRsyncScript,
               SshTargetHost |-> targetHost,
               RestartPolicy |-> "Never"],
     status |-> NoRuns]

RsyncJobDest(c, ns, id, targetHost, privateKeySecretName, svcAccName, t) ==
    [cluster |-> c, ns |-> ns, kind |-> "Job", name |-> RsyncName(id),
     labels |-> NoLabels, owner |-> t,
     spec |-> [BackoffLimit |-> backoffLimit,
               TTLSecondsAfterFinished |-> jobTTLSeconds,
               TemplateLabels |-> ComponentLabels(id, Rsync),
               ServiceAccountName |-> svcAccName,
               SecretName |-> privateKeySecretName,
               DefaultMode |-> permissions,
               Script |-> BuildRsyncScript,
               SshTargetHost |-> targetHost,
               RestartPolicy |-> "Never"],
     status |-> NoRuns]

\* one run of the script of scriptTemplate in the container of the job: the
\* copy tool is invoked until it exits 0 or MaxRetries invocations failed.
\* The invocation that is the first to exit 0 is the first or the last one.
FirstSuccess(s) == {1, s.MaxRetries}
ScriptRuns(s) ==
    {[invocations |-> k, exit |-> 0] : k \in FirstSuccess(s)}
       \cup {[invocations |-> s.MaxRetries, exit |-> 1]}

\* the job controller: a pod whose container failed is replaced as long as
\* the failed pods are not more than BackoffLimit
JobOf(objs, t) == {o \in objs : o.kind = "Job" /\ o.owner = t}
JobSucceeded(job) == \E i \in 1..Len(job.status.Runs) : job.status.Runs[i].exit = 0
JobFailed(job) == ~JobSucceeded(job) /\ Len(job.status.Runs) > job.spec.BackoffLimit
JobPhase(job) ==
    IF JobSucceeded(job) THEN "Succeeded" ELSE IF JobFailed(job) THEN "Failed" ELSE "Active"

\* createSshdPublicKeySecret, PrepareSshdPod, CreateSshdService
SshdName(id) == "pv-migrate-sshd-" \o id

SshdPublicKeySecret(c, ns, id, publicKey, t) ==
    [cluster |-> c, ns |-> ns, kind |-> "Secret", name |-> SshdName(id),
     labels |-> ComponentLabels(id, Sshd), owner |-> t,
     spec |-> [Data |-> {<<"publicKey", publicKey>>}]]

SshdPod(c, ns, id, secretName, svcAccName, t) ==
    [cluster |-> c, ns |-> ns, kind |-> "Pod", name |-> SshdName(id),
     labels |-> ComponentLabels(id, Sshd), owner |-> t,
     spec |-> [ServiceAccountName |-> svcAccName, SecretName |-> secretName]]

SshdService(c, ns, id, t) ==
    [cluster |-> c, ns |-> ns, kind |-> "Service", name |-> SshdName(id),
     labels |-> ComponentLabels(id, Sshd), owner |-> t,
     spec |-> [Selector |-> ComponentLabels(id, Sshd)]]

\* CreateSSHKeyPair: a fresh pair per call
PublicKeyOf(id) == "public key of " \o id
PrivateKeyOf(id) == "private key of " \o id

(***************************************************************************)
(* Migration instances.  Each runs RunRsyncJobOverSSH with its own task:   *)
(* its ID, the cluster and namespace of the source and of the destination  *)
(* claim, and the options SourceCreatePSP and DestCreatePSP.               *)
(***************************************************************************)
\* instanceId := t.ID, a string: the identifiers of the two instances, the
\* second of which is the first behind the word of a component
TaskIDs(t) == IF t = "t1" THEN {"a"} ELSE {"rsync-a"}

Place(c, ns) == [cluster |-> c, ns |-> ns]
SourcePlaces == {Place("c1", "ns1")}
DestPlaces == {Place("c1", "ns1"), Place("c1", "ns2"), Place("c2", "ns1")}

TaskValues(t) ==
    [ID : TaskIDs(t), src : SourcePlaces, dst : DestPlaces,
     SourceCreatePSP : BOOLEAN, DestCreatePSP : BOOLEAN]

NoLocals ==
    [sourceSvcAccName |-> "", destSvcAccName |-> "", publicKey |-> "",
     privateKey |-> "", secretName |-> "", targetHost |-> ""]

ClusterIdle ==
    /\ objects = {}
    /\ task = [t \in Tasks |-> CHOOSE v \in TaskValues(t) : TRUE]
    /\ pc = [t \in Tasks |-> "idle"]
    /\ loc = [t \in Tasks |-> NoLocals]
    /\ log = [t \in Tasks |-> <<>>]
    /\ ret = [t \in Tasks |-> Running]

ClusterInit ==
    /\ objects = {}
    /\ task \in [Tasks -> UNION {TaskValues(t) : t \in Tasks}]
    /\ \A t \in Tasks : task[t] \in TaskValues(t)
    /\ pc = [t \in Tasks |-> "start"]
    /\ loc = [t \in Tasks |-> NoLocals]
    /\ log = [t \in Tasks |-> <<>>]
    /\ ret = [t \in Tasks |-> Running]

Side(t, side) == IF side = "src" THEN task[t].src ELSE task[t].dst
Sides == {"src", "dst"}
At(side, step) == side \o "_" \o step

\* where RunRsyncJobOverSSH goes on after the PSP resources of a side, or
\* from the start ("") : the next side whose option is set, else the key pair
AfterPSP(t, side) ==
    IF side = "" /\ task[t].SourceCreatePSP THEN At("src", "psp")
    ELSE IF side # "dst" /\ task[t].DestCreatePSP THEN At("dst", "psp")
    ELSE "keygen"

Goto(t, where) == pc' = [pc EXCEPT ![t] = where]
Logged(t, entry) == log' = [log EXCEPT ![t] = Append(@, entry)]
Return(t, e) == ret' = [ret EXCEPT ![t] = Returned(e)] /\ Goto(t, "done")

\* instanceId := t.ID ... sourceSvcAccName := "default"
Start(t) ==
    /\ pc[t] = "start"
    /\ loc' = [loc EXCEPT ![t].sourceSvcAccName = "default",
                          ![t].destSvcAccName = "default"]
    /\ Goto(t, AfterPSP(t, ""))
    /\ UNCHANGED <<objects, task, log, ret>>
    /\ OnlyCluster

\* ensurePSP: what it returns for the error of its Create
\* faulty variants: without the IsAlreadyExists check; dropping every error
ensurePSP_noExistsCheck(err) == err
ensurePSP_swallows(err) == NoErr

ensurePSP(err) == IF IsAlreadyExists(err) THEN NoErr ELSE err

\* createPSPResources: err := ensurePSP(c) ; if err != nil { return "", err }
EnsurePSP(t, side) ==
    /\ pc[t] = At(side, "psp")
    /\ LET o == PodSecurityPolicy(Side(t, side).cluster, t) IN
       \E resp \in Responses(objects, o) :
          /\ objects' = Apply(objects, o, resp)
          /\ Logged(t, Call(o, resp))
          /\ IF ensurePSP(ErrOf(resp, o)) = NoErr
               THEN Goto(t, At(side, "sa")) /\ ret' = ret
               ELSE Return(t, ensurePSP(ErrOf(resp, o)))
    /\ UNCHANGED <<task, loc>>
    /\ OnlyCluster

\* a Create whose error is returned as it is, and the step after it
CreateOrReturn(t, o, next) ==
    \E resp \in Responses(objects, o) :
       /\ objects' = Apply(objects, o, resp)
       /\ Logged(t, Call(o, resp))
       /\ IF ErrOf(resp, o) = NoErr
            THEN Goto(t, next) /\ ret' = ret
            ELSE Return(t, ErrOf(resp, o))

\* c.CoreV1().ServiceAccounts(ns).Create
CreateServiceAccount(t, side) ==
    /\ pc[t] = At(side, "sa")
    /\ CreateOrReturn(t, ServiceAccount(Side(t, side).cluster, Side(t, side).ns,
                                        task[t].ID, t), At(side, "role"))
    /\ UNCHANGED <<task, loc>>
    /\ OnlyCluster

\* faulty variant: the error of the Create is not checked
CreateRole_ignoresError(t, side) ==
    /\ pc[t] = At(side, "role")
    /\ LET o == Role(Side(t, side).cluster, Side(t, side).ns, task[t].ID, t) IN
       \E resp \in Responses(objects, o) :
          /\ objects' = Apply(objects, o, resp)
          /\ Logged(t, Call(o, resp))
          /\ Goto(t, At(side, "rb")) /\ ret' = ret
    /\ UNCHANGED <<task, loc>>
    /\ OnlyCluster

\* c.RbacV1().Roles(ns).Create
CreateRole(t, side) ==
    /\ pc[t] = At(side, "role")
    /\ CreateOrReturn(t, Role(Side(t, side).cluster, Side(t, side).ns,
                              task[t].ID, t), At(side, "rb"))
    /\ UNCHANGED <<task, loc>>
    /\ OnlyCluster

\* c.RbacV1().RoleBindings(ns).Create ; return name, nil
CreateRoleBinding(t, side) ==
    /\ pc[t] = At(side, "rb")
    /\ CreateOrReturn(t, RoleBinding(Side(t, side).cluster, Side(t, side).ns,
                                     task[t].ID, t), AfterPSP(t, side))
    /\ loc' = IF pc'[t] = "done" THEN loc
              ELSE IF side = "src"
                THEN [loc EXCEPT ![t].sourceSvcAccName = PSPResourceName(task[t].ID)]
                ELSE [loc EXCEPT ![t].destSvcAccName = PSPResourceName(task[t].ID)]
    /\ UNCHANGED task
    /\ OnlyCluster

\* publicKey, privateKey, err := CreateSSHKeyPair(KeyAlgorithm)
GenerateKeyPair(t) ==
    /\ pc[t] = "keygen"
    /\ \E ok \in BOOLEAN :
          /\ Logged(t, Step("keygen", task[t].src, IF ok THEN "ok" ELSE "KeyGenerationError"))
          /\ IF ok
               THEN /\ loc' = [loc EXCEPT ![t].publicKey = PublicKeyOf(task[t].ID),
                                          ![t].privateKey = PrivateKeyOf(task[t].ID)]
                    /\ Goto(t, "pubsecret") /\ ret' = ret
               ELSE /\ loc' = loc
                    /\ Return(t, [reason |-> "KeyGenerationError", kind |-> "", name |-> ""])
    /\ UNCHANGED <<objects, task>>
    /\ OnlyCluster

\* faulty variant: the two results of CreateSSHKeyPair taken for each other
CreatePublicKeySecret_sendsPrivateKey(t) ==
    /\ pc[t] = "pubsecret"
    /\ CreateOrReturn(t, SshdPublicKeySecret(task[t].src.cluster, task[t].src.ns,
                                             task[t].ID, loc[t].privateKey, t), "sshdpod")
    /\ loc' = IF pc'[t] = "done" THEN loc
              ELSE [loc EXCEPT ![t].secretName = SshdName(task[t].ID)]
    /\ UNCHANGED task
    /\ OnlyCluster

\* secret, err := createSshdPublicKeySecret(instanceId, s, publicKey)
CreatePublicKeySecret(t) ==
    /\ pc[t] = "pubsecret"
    /\ CreateOrReturn(t, SshdPublicKeySecret(task[t].src.cluster, task[t].src.ns,
                                             task[t].ID, loc[t].publicKey, t), "sshdpod")
    /\ loc' = IF pc'[t] = "done" THEN loc
              ELSE [loc EXCEPT ![t].secretName = SshdName(task[t].ID)]
    /\ UNCHANGED task
    /\ OnlyCluster

\* faulty variant: the pod is created and not waited for
CreateSshdPod_noWait(t) ==
    /\ pc[t] = "sshdpod"
    /\ CreateOrReturn(t, SshdPod(task[t].src.cluster, task[t].src.ns, task[t].ID,
                                 loc[t].secretName, loc[t].sourceSvcAccName, t),
                      "service")
    /\ UNCHANGED <<task, loc>>
    /\ OnlyCluster

\* PrepareSshdPod ; CreateSshdPodWaitTillRunning: the Create
CreateSshdPod(t) ==
    /\ pc[t] = "sshdpod"
    /\ CreateOrReturn(t, SshdPod(task[t].src.cluster, task[t].src.ns, task[t].ID,
                                 loc[t].secretName, loc[t].sourceSvcAccName, t),
                      "sshdwait")
    /\ UNCHANGED <<task, loc>>
    /\ OnlyCluster

\* a blocking wait or lookup that ends with the awaited result or an error
WaitOrReturn(t, what, where, good, bad, next) ==
    \E resp \in {good, bad} :
       /\ Logged(t, Step(what, where, resp))
       /\ IF resp = good
            THEN Goto(t, next) /\ ret' = ret
            ELSE Return(t, [reason |-> bad, kind |-> "", name |-> ""])

\* CreateSshdPodWaitTillRunning: the wait
WaitSshdPodRunning(t) ==
    /\ pc[t] = "sshdwait"
    /\ WaitOrReturn(t, "wait pod", task[t].src, "Running", "TimeoutError", "service")
    /\ UNCHANGED <<objects, task, loc>>
    /\ OnlyCluster

\* createdService, err := CreateSshdService(instanceId, s, serviceType)
CreateSshdService(t) ==
    /\ pc[t] = "service"
    /\ CreateOrReturn(t, SshdService(task[t].src.cluster, task[t].src.ns,
                                     task[t].ID, t), "address")
    /\ UNCHANGED <<task, loc>>
    /\ OnlyCluster

\* faulty variant: the error of the lookup is not checked
GetServiceAddress_ignoresError(t) ==
    /\ pc[t] = "address"
    /\ \E resp \in {"Assigned", "TimeoutError"} :
          /\ Logged(t, Step("get address", task[t].src, resp))
          /\ Goto(t, "privsecret") /\ ret' = ret
    /\ loc' = [loc EXCEPT ![t].targetHost = "address of " \o SshdName(task[t].ID)]
    /\ UNCHANGED <<objects, task>>
    /\ OnlyCluster

\* targetHost, err := k8s.GetServiceAddress(sourceKubeClient, createdService)
GetServiceAddress(t) ==
    /\ pc[t] = "address"
    /\ WaitOrReturn(t, "get address", task[t].src, "Assigned", "TimeoutError", "privsecret")
    /\ loc' = IF pc'[t] = "done" THEN loc
              ELSE [loc EXCEPT ![t].targetHost = "address of " \o SshdName(task[t].ID)]
    /\ UNCHANGED <<objects, task>>
    /\ OnlyCluster

\* secret, err = createRsyncPrivateKeySecret(instanceId, d, privateKey)
CreatePrivateKeySecret(t) ==
    /\ pc[t] = "privsecret"
    /\ CreateOrReturn(t, RsyncPrivateKeySecret(task[t].dst.cluster, task[t].dst.ns,
                                               task[t].ID, loc[t].privateKey, t), "job")
    /\ loc' = IF pc'[t] = "done" THEN loc
              ELSE [loc EXCEPT ![t].secretName = RsyncName(task[t].ID)]
    /\ UNCHANGED task
    /\ OnlyCluster

\* buildRsyncJobDest ; k8s.CreateJobWaitTillCompleted: the Create
CreateRsyncJob(t) ==
    /\ pc[t] = "job"
    /\ CreateOrReturn(t, RsyncJobDest(task[t].dst.cluster, task[t].dst.ns, task[t].ID,
                                      loc[t].targetHost, loc[t].secretName,
                                      loc[t].destSvcAccName, t), "jobwait")
    /\ UNCHANGED <<task, loc>>
    /\ OnlyCluster

\* the cluster runs the pod of the job: the script runs once in it
RunJobPod(t) ==
    /\ \E job \in JobOf(objects, t) :
          /\ JobPhase(job) = "Active"
          /\ \E run \in ScriptRuns(job.spec.Script) :
                objects' = (objects \ {job}) \cup
                              {[job EXCEPT !.status.Runs = Append(@, run)]}
    /\ UNCHANGED <<task, pc, loc, log, ret>>
    /\ OnlyCluster

\* k8s.CreateJobWaitTillCompleted: the wait ; return nil
WaitJobCompleted(t) ==
    /\ pc[t] = "jobwait"
    /\ \E job \in JobOf(objects, t) :
       \E resp \in {JobPhase(job), "TimeoutError"} \ {"Active"} :
          /\ Logged(t, Step("wait job", task[t].dst, resp))
          /\ IF resp = "Succeeded"
               THEN Return(t, NoErr)
               ELSE Return(t, [reason |-> resp, kind |-> "", name |-> ""])
    /\ UNCHANGED <<objects, task, loc>>
    /\ OnlyCluster

createPSPResources(t, side) ==
    \/ EnsurePSP(t, side)
    \/ CreateServiceAccount(t, side)
    \/ CreateRole(t, side)
    \/ CreateRoleBinding(t, side)

RunRsyncJobOverSSH(t) ==
    \/ Start(t)
    \/ \E side \in Sides : createPSPResources(t, side)
    \/ GenerateKeyPair(t)
    \/ CreatePublicKeySecret(t)
    \/ CreateSshdPod(t)
    \/ WaitSshdPodRunning(t)
    \/ CreateSshdService(t)
    \/ GetServiceAddress(t)
    \/ CreatePrivateKeySecret(t)
    \/ CreateRsyncJob(t)
    \/ WaitJobCompleted(t)

Next == \E t \in Tasks : RunRsyncJobOverSSH(t) \/ RunJobPod(t)

(***************************************************************************)
(* Specifications.                                                         *)
(***************************************************************************)
InitEngine == EngineInit /\ ScriptIdle /\ ClusterIdle

SpecEngine ==
    /\ InitEngine
    /\ [][EngineNext]_vars

Init == ClusterInit /\ ScriptIdle /\ EngineIdle

Spec == Init /\ [][Next]_vars

\* The shell runs the script's commands one after the other, and rsync and
\* sleep return: a script that can take a step eventually takes it.
InitScript == ScriptInit /\ EngineIdle /\ ClusterIdle

SpecScript ==
    /\ InitScript
    /\ [][ScriptNext]_vars
    /\ WF_vars(ScriptNext)

ScriptExited == spc = "exited"
AllFailed(t) == \A i \in 1..Len(t) : t[i] # 0
Printed(m) == \E i \in 1..Len(stdout) : stdout[i] = m

(***************************************************************************)
(* C1.  Retry law: if rsync exits non-zero on attempts 1..k-1 and zero on  *)
(* attempt k (k <= R), the script exits 0 after exactly k invocations and  *)
(* exactly k-1 sleeps of D seconds (k-1)*D in total, and nothing is        *)
(* invoked after the first successful invocation.                          *)
(***************************************************************************)
RetryLawState ==
    /\ \A i \in 1..Len(tool) : tool[i] = 0 => i = Len(tool)
    /\ Len(tool) <= script.MaxRetries
    /\ (ScriptExited /\ tool # <<>> /\ Last(tool) = 0) =>
          /\ exitStatus = 0
          /\ sleeps = Len(tool) - 1
          /\ elapsed = (Len(tool) - 1) * script.RetryIntervalSecs

RetrySucceeded == tool # <<>> /\ Last(tool) = 0

C1_RetryLaw ==
    /\ []RetryLawState
    /\ (RetrySucceeded ~> (ScriptExited /\ exitStatus = 0))
    /\ [][RetrySucceeded => tool' = tool]_vars

\* fails on attempts 1-3, succeeds on attempt 4, R = 10: 4 invocations, 3*D
C1_Witness ==
    /\ ScriptExited
    /\ script = BuildRsyncScript
    /\ tool = <<1, 23, 1, 0>>
    /\ exitStatus = 0
    /\ sleeps = 3
    /\ elapsed = 3 * retryIntervalSecs

(***************************************************************************)
(* C2.  Retry exhaustion: if rsync exits non-zero on every attempt, the    *)
(* script invokes it exactly R times and then exits non-zero; the          *)
(* exhausted-retries line is printed iff the exit status is non-zero.      *)
(***************************************************************************)
ExhaustionState ==
    ScriptExited =>
       /\ AllFailed(tool) => (Len(tool) = script.MaxRetries /\ exitStatus # 0)
       /\ Printed(ExhaustedMsg(script.MaxRetries)) <=> exitStatus # 0

C2_RetryExhaustion ==
    /\ []ExhaustionState
    /\ <>ScriptExited

\* always fails, R = 3: 3 invocations, non-zero exit, the line is printed
C2_Witness ==
    /\ ScriptExited
    /\ script.MaxRetries = 3
    /\ tool = <<1, 1, 23>>
    /\ exitStatus # 0
    /\ Printed(ExhaustedMsg(3))


EngineDone == epc = "done"
IsPrefix(s, t) == Len(s) <= Len(t) /\ \A i \in 1..Len(s) : s[i] = t[i]
Distinct(s) == \A i, j \in 1..Len(s) : s[i] = s[j] => i = j
ApplicablePositions(s) == {i \in 1..Len(s) : s[i] \in applicable}

(***************************************************************************)
(* C3.  Ordered fallback: when the strategies the caller lists are all     *)
(* applicable, the engine executes them in the caller's order, one at a    *)
(* time, each at most once and the next one only after the one before      *)
(* failed; if all fail, the aggregate error lists exactly one entry per    *)
(* strategy, in the caller's order.                                        *)
(***************************************************************************)
AllApplicableInOrder ==
    /\ flag.given
    /\ flag.value # <<>>
    /\ Distinct(flag.value)
    /\ \A i \in 1..Len(flag.value) : flag.value[i] \in applicable
    /\ resolvable

C3_OrderedFallback ==
    AllApplicableInOrder =>
       /\ IsPrefix(executed, flag.value)
       /\ Distinct(executed)
       /\ Len(outcomes) \in {Len(executed), Len(executed) - 1}
       /\ \A i \in 1..Len(outcomes) : outcomes[i] => i = Len(executed)
       /\ (attempt # NoStrategy) <=> (Len(outcomes) = Len(executed) - 1)
       /\ (EngineDone /\ \A i \in 1..Len(outcomes) : ~outcomes[i]) =>
             /\ executed = flag.value
             /\ result = "AllStrategiesExhaustedError"
             /\ failures = [i \in 1..Len(flag.value) |-> Failed(flag.value[i])]

\* A, B, C given in an order that is not the default one, and all three fail
C3_Witness ==
    /\ EngineDone
    /\ flag = [given |-> TRUE, value |-> <<"lbsvc", "mnt2", "svc">>]
    /\ applicable = StrategyNames
    /\ executed = <<"lbsvc", "mnt2", "svc">>
    /\ outcomes = <<FALSE, FALSE, FALSE>>
    /\ result = "AllStrategiesExhaustedError"
    /\ Len(failures) = 3

(***************************************************************************)
(* C4.  Stop at first success: when exactly one of the supplied            *)
(* strategies is applicable and its execution succeeds, the engine returns *)
(* success after exactly one execute(); in no run is anything executed     *)
(* after an execution that succeeded.                                      *)
(***************************************************************************)
C4_StopAtFirstSuccess ==
    /\ \A i \in 1..Len(outcomes) : outcomes[i] => (i = Len(executed) /\ EngineDone)
    /\ ( /\ EngineDone
         /\ flag.given
         /\ Cardinality(ApplicablePositions(flag.value)) = 1
         /\ outcomes # <<>> /\ outcomes[1] ) =>
            /\ result = "success"
            /\ Len(executed) = 1
            /\ \A i \in ApplicablePositions(flag.value) : executed = <<flag.value[i]>>

\* the applicable strategy is the second of three: one skip, one execute
C4_Witness ==
    /\ EngineDone
    /\ flag = [given |-> TRUE, value |-> <<"mnt2", "svc", "lbsvc">>]
    /\ applicable = {"svc"}
    /\ executed = <<"svc">>
    /\ outcomes = <<TRUE>>
    /\ result = "success"

(***************************************************************************)
(* C5.  Fail-fast configuration check: when the caller's list holds an     *)
(* unknown name, at any position, the engine fails with ConfigurationError *)
(* and has created no cluster object.                                      *)
(***************************************************************************)
SuppliedUnknownName ==
    flag.given /\ \E i \in 1..Len(flag.value) : flag.value[i] \notin StrategyNames

C5_FailFastConfiguration ==
    SuppliedUnknownName =>
       /\ created = 0
       /\ executed = <<>>
       /\ result \in {"running", "ConfigurationError"}
       /\ EngineDone => result = "ConfigurationError"
       /\ epc \in {"cli", "validate", "done"}

\* the unknown name comes last, after two applicable strategies
C5_Witness ==
    /\ EngineDone
    /\ flag = [given |-> TRUE, value |-> <<"mnt2", "svc", UnknownName>>]
    /\ applicable = StrategyNames
    /\ resolvable
    /\ result = "ConfigurationError"
    /\ created = 0

Entries(t) == 1..Len(log[t])
IsCreate(e, kind) == e.call = "create" /\ e.kind = kind
Accepted(e) == e.res \in {"Created", "AlreadyExists"}
ErrorOfEntry(e) == [reason |-> e.res, kind |-> e.kind, name |-> e.name]
PoliciesIn(c) ==
    {o \in objects : o.kind = "PodSecurityPolicy" /\ o.cluster = c /\ o.name = pspName}
Clusters == {p.cluster : p \in SourcePlaces \cup DestPlaces}
\* the ensurePSP calls of instance t against cluster c whose Create the API
\* server did not refuse for a reason of its own
PolicyCalls(t, c) ==
    {i \in Entries(t) : /\ IsCreate(log[t][i], "PodSecurityPolicy")
                        /\ log[t][i].cluster = c
                        /\ Accepted(log[t][i])}
\* the ensurePSP call that made entry i returned an error
ReturnedErrorAt(t, i) == i = Len(log[t]) /\ ret[t].done /\ ret[t].err # NoErr

(***************************************************************************)
(* C6.  Idempotence of ensurePSP: when an instance calls it twice in       *)
(* sequence against the same cluster (and the API server refuses neither   *)
(* Create for a reason of its own), neither call returns an error, the     *)
(* policy is created by the first call only, and the second call leaves    *)
(* the objects of the clusters unchanged.                                  *)
(***************************************************************************)
IdempotentState ==
    \A t \in Tasks : \A c \in Clusters :
       \A i, j \in PolicyCalls(t, c) :
          /\ ~ReturnedErrorAt(t, i)
          /\ i < j => /\ log[t][j].res = "AlreadyExists"
                      /\ Cardinality(PoliciesIn(c)) = 1

SecondPolicyCall(t) ==
    /\ Len(log'[t]) = Len(log[t]) + 1
    /\ IsCreate(Last(log'[t]), "PodSecurityPolicy")
    /\ PolicyCalls(t, Last(log'[t]).cluster) # {}

C6_EnsurePSPIdempotent ==
    /\ []IdempotentState
    /\ [][\A t \in Tasks : SecondPolicyCall(t) => objects' = objects]_vars

\* source and destination in one cluster, both PSP options set: the second
\* call found the policy of the first and the instance went on
C6_Witness ==
    \E t \in Tasks :
       /\ task[t].src.cluster = task[t].dst.cluster
       /\ task[t].src.ns # task[t].dst.ns
       /\ Len(log[t]) = 5
       /\ log[t][1].kind = "PodSecurityPolicy" /\ log[t][1].res = "Created"
       /\ log[t][5].kind = "PodSecurityPolicy" /\ log[t][5].res = "AlreadyExists"
       /\ pc[t] = At("dst", "sa")
       /\ Cardinality(PoliciesIn(task[t].src.cluster)) = 1

(***************************************************************************)
(* C7.  Concurrent first use: when several instances call ensurePSP        *)
(* against a cluster that has no policy yet, then however their Creates    *)
(* interleave, the cluster never holds more than one policy, exactly one   *)
(* of the Creates creates it, and no caller returns an error (the API      *)
(* server refusing none of the Creates for a reason of its own).           *)
(***************************************************************************)
C7_ConcurrentFirstUse ==
    \A c \in Clusters :
       /\ Cardinality(PoliciesIn(c)) <= 1
       /\ \A t, u \in Tasks : \A i \in PolicyCalls(t, c) : \A j \in PolicyCalls(u, c) :
             /\ ~ReturnedErrorAt(t, i)
             /\ Cardinality(PoliciesIn(c)) = 1
             /\ (log[t][i].res = "Created" /\ log[u][j].res = "Created")
                   => (t = u /\ i = j)
       /\ (\E t \in Tasks : PolicyCalls(t, c) # {})
             => \E t \in Tasks : \E i \in PolicyCalls(t, c) : log[t][i].res = "Created"

\* both instances were in their first ensurePSP against c1 at the same
\* time: one Create created the policy, the other found it, both went on
C7_Witness ==
    /\ \A t \in Tasks :
          /\ Len(log[t]) = 1
          /\ IsCreate(log[t][1], "PodSecurityPolicy")
          /\ log[t][1].cluster = "c1"
          /\ pc[t] = At("src", "sa")
          /\ ~ret[t].done
    /\ log["t2"][1].res = "Created"
    /\ log["t1"][1].res = "AlreadyExists"
    /\ Cardinality(PoliciesIn("c1")) = 1

(***************************************************************************)
(* C8.  Shared policy precedes grants: whenever a Role or RoleBinding (or  *)
(* ServiceAccount) of createPSPResources exists in a cluster, the policy   *)
(* `pv-migrate` exists in that cluster; and when ensurePSP fails with an   *)
(* error other than "already exists", createPSPResources returns that      *)
(* error and the instance has made no further Create.                      *)
(***************************************************************************)
C8_PolicyPrecedesGrants ==
    /\ \A o \in objects :
          o.kind \in {"ServiceAccount", "Role", "RoleBinding"} => PoliciesIn(o.cluster) # {}
    /\ \A t \in Tasks : \A i \in Entries(t) :
          (IsCreate(log[t][i], "PodSecurityPolicy") /\ ~Accepted(log[t][i])) =>
             /\ i = Len(log[t])
             /\ ret[t] = Returned(ErrorOfEntry(log[t][i]))
             /\ \A o \in objects :
                   (o.owner = t /\ o.kind \in {"ServiceAccount", "Role", "RoleBinding"}) =>
                      \E k \in 1..(i - 1) :
                         /\ log[t][k].res = "Created"
                         /\ <<log[t][k].cluster, log[t][k].ns, log[t][k].kind,
                              log[t][k].name>> = Key(o)

\* the source side got its grants, then the destination cluster refused the
\* policy: the instance returned, with nothing created in that cluster
C8_Witness ==
    \E t \in Tasks :
       /\ task[t].dst.cluster = "c2"
       /\ Len(log[t]) = 5
       /\ log[t][4].kind = "RoleBinding" /\ log[t][4].res = "Created"
       /\ IsCreate(log[t][5], "PodSecurityPolicy") /\ log[t][5].res = "Forbidden"
       /\ ret[t] = Returned([reason |-> "Forbidden", kind |-> "PodSecurityPolicy",
                             name |-> pspName])
       /\ \E o \in objects : o.kind = "RoleBinding" /\ o.owner = t
       /\ ~\E o \in objects : o.cluster = "c2" /\ o.owner = t

(***************************************************************************)
(* C9.  createPSPResources creates the service account, then the role,     *)
(* then the role binding; when one of the three Creates fails it returns   *)
(* that Create's error, which names the kind and the object, makes no      *)
(* later Create, and leaves what it created before in place.               *)
(***************************************************************************)
GrantKinds == {"ServiceAccount", "Role", "RoleBinding"}
GrantBefore(kind) ==
    IF kind = "ServiceAccount" THEN "PodSecurityPolicy"
    ELSE IF kind = "Role" THEN "ServiceAccount" ELSE "Role"

C9_GrantAccessInSequence ==
    \A t \in Tasks : \A i \in Entries(t) :
       LET e == log[t][i] IN
       (e.call = "create" /\ e.kind \in GrantKinds) =>
          /\ e.name = PSPResourceName(task[t].ID)
          /\ i > 1
          /\ IsCreate(log[t][i - 1], GrantBefore(e.kind))
          /\ log[t][i - 1].cluster = e.cluster
          /\ IF e.kind = "ServiceAccount"
               THEN Accepted(log[t][i - 1])
               ELSE log[t][i - 1].res = "Created" /\ log[t][i - 1].ns = e.ns
          /\ e.res # "Created" =>
                /\ i = Len(log[t])
                /\ ret[t] = Returned(ErrorOfEntry(e))
                /\ ret[t].err.kind = e.kind
          /\ e.res = "Created" =>
                /\ \E o \in objects :
                      Key(o) = <<e.cluster, e.ns, e.kind, e.name>> /\ o.owner = t
                /\ (e.kind # "RoleBinding" /\ i < Len(log[t])) =>
                      /\ log[t][i + 1].call = "create"
                      /\ GrantBefore(log[t][i + 1].kind) = e.kind
                /\ (e.kind # "RoleBinding" /\ i = Len(log[t])) => ~ret[t].done

\* the role binding was refused: the error names it, and the service
\* account and the role created before it are still there
C9_Witness ==
    \E t \in Tasks :
       /\ Len(log[t]) = 4
       /\ log[t][2].kind = "ServiceAccount" /\ log[t][2].res = "Created"
       /\ log[t][3].kind = "Role" /\ log[t][3].res = "Created"
       /\ log[t][4].kind = "RoleBinding" /\ log[t][4].res = "Forbidden"
       /\ ret[t].done /\ ret[t].err.kind = "RoleBinding"
       /\ \E o \in objects : o.kind = "ServiceAccount" /\ o.owner = t
       /\ \E o \in objects : o.kind = "Role" /\ o.owner = t
       /\ ~\E o \in objects : o.kind = "RoleBinding" /\ o.owner = t

(***************************************************************************)
(* C10.  Every ephemeral object of a migration (private-key secret, rsync  *)
(* job, service account, role, role binding) is named                      *)
(* pv-migrate-<component tag>-<instance id> and carries the labels         *)
(* {instance = <instance id>, component = <component tag>} on the object   *)
(* itself.                                                                 *)
(***************************************************************************)
EphemeralKinds == {"Secret", "Job", "ServiceAccount", "Role", "RoleBinding"}
TaggedName(tag, id) == "pv-migrate-" \o tag \o "-" \o id

C10_NamedAndLabelled ==
    \A o \in objects :
       o.kind \in EphemeralKinds =>
          \E tag \in ComponentTags :
             /\ o.name = TaggedName(tag, task[o.owner].ID)
             /\ o.labels = ComponentLabels(task[o.owner].ID, tag)


(***************************************************************************)
(* C11.  Naming uniqueness: the objects that instances with different      *)
(* identifiers create for themselves (every object but the shared policy)  *)
(* never have the same name.                                                *)
(***************************************************************************)
OwnObjects == {o \in objects : o.kind # "PodSecurityPolicy"}

C11_NamesPairwiseDistinct ==
    \A o1, o2 \in OwnObjects :
       task[o1.owner].ID # task[o2.owner].ID => o1.name # o2.name

(***************************************************************************)
(* C12.  Attempt cleanup on both paths: when RunRsyncJobOverSSH has        *)
(* returned, with nil or with an error, every object the attempt created   *)
(* for itself is gone from the cluster or carries a time-based expiry;     *)
(* only the shared policy may remain without one.                          *)
(***************************************************************************)
HasExpiry(o) == o.kind = "Job" /\ o.spec.TTLSecondsAfterFinished > 0

C12_CleanedUpAtReturn ==
    \A t \in Tasks :
       ret[t].done => \A o \in OwnObjects : o.owner = t => HasExpiry(o)

(***************************************************************************)
(* C13.  Private key confinement: in every state the private key that an   *)
(* instance generated is held by at most one object of any cluster, and    *)
(* that object is a secret of the instance in the cluster and namespace    *)
(* of the destination claim whose name includes the instance identifier;   *)
(* when source and destination are different places nothing at the source  *)
(* holds it, and what the instance created for the source side (secret,    *)
(* pod, service) holds of the key pair the public key only.                *)
(***************************************************************************)
\* the strings an object stores: secret data, and the references of a pod
\* or job to a secret, a service account and a host
Carried(o) ==
    {o.name} \cup
    (IF o.kind = "Secret" THEN {d[2] : d \in o.spec.Data}
     ELSE IF o.kind = "Pod" THEN {o.spec.SecretName, o.spec.ServiceAccountName}
     ELSE IF o.kind = "Job"
       THEN {o.spec.SecretName, o.spec.ServiceAccountName, o.spec.SshTargetHost}
     ELSE {})

Includes(s, sub) ==
    \E i \in 1..Len(s) : i + Len(sub) - 1 <= Len(s) /\ SubSeq(s, i, i + Len(sub) - 1) = sub

Holders(key) == {o \in objects : key \in Carried(o)}
SourceSide(t) == {o \in objects : o.owner = t /\ o.name = SshdName(task[t].ID)}

C13_PrivateKeyConfined ==
    \A t \in Tasks :
       LET key == PrivateKeyOf(task[t].ID) IN
       /\ Cardinality(Holders(key)) <= 1
       /\ Holders(key) # {} => loc[t].privateKey = key
       /\ \A o \in Holders(key) :
             /\ o.kind = "Secret" /\ o.owner = t
             /\ o.cluster = task[t].dst.cluster /\ o.ns = task[t].dst.ns
             /\ Includes(o.name, task[t].ID)
             /\ o \notin SourceSide(t)
             /\ task[t].src # task[t].dst =>
                   ~(o.cluster = task[t].src.cluster /\ o.ns = task[t].src.ns)
       /\ \A o \in SourceSide(t) :
             o.kind = "Secret" => o.spec.Data = {<<"publicKey", PublicKeyOf(task[t].ID)>>}

\* an instance that migrates to another cluster has created its rsync job:
\* the source cluster holds the public key, the other cluster the private
C13_Witness ==
    \E t \in Tasks :
       /\ task[t].dst.cluster = "c2"
       /\ \E o \in Holders(PrivateKeyOf(task[t].ID)) : o.cluster = "c2"
       /\ \E o \in Holders(PublicKeyOf(task[t].ID)) : o.cluster = "c1" /\ o \in SourceSide(t)
       /\ \E o \in objects : o.kind = "Job" /\ o.owner = t

(***************************************************************************)
(* C14.  Least privilege of the access grant: every Role in any cluster    *)
(* has exactly one rule and permits nothing but the verb `use` on the      *)
(* policy `pv-migrate`; every RoleBinding has one subject, the service     *)
(* account of the instance that created it, in the namespace of the        *)
(* binding, and refers to the Role of that instance in that namespace.     *)
(***************************************************************************)
\* what RBAC grants: a rule permits a request when each of its lists names
\* the request's value or "*", an empty ResourceNames meaning every name
Matches(list, v) == v \in list \/ "*" \in list
Permits(role, req) ==
    \E rule \in role.spec.Rules :
       /\ Matches(rule.Verbs, req.verb)
       /\ Matches(rule.APIGroups, req.group)
       /\ Matches(rule.Resources, req.resource)
       /\ (rule.ResourceNames = {} \/ req.name \in rule.ResourceNames)

Requests ==
    [verb : {"use", "get", "create", "delete"}, group : {"policy", "", "rbac.authorization.k8s.io"},
     resource : {"podsecuritypolicies", "secrets", "roles"}, name : {pspName, "privileged"}]
UsePolicy ==
    [verb |-> "use", group |-> "policy", resource |-> "podsecuritypolicies", name |-> pspName]

\* a subject of kind ServiceAccount without a namespace is the account of
\* that name in the namespace of the binding
SubjectsOf(rb) ==
    {[Kind |-> sub.Kind, Name |-> sub.Name, Namespace |-> rb.ns] : sub \in rb.spec.Subjects}

C14_LeastPrivilege ==
    /\ \A o \in objects :
          o.kind = "Role" =>
             /\ Cardinality(o.spec.Rules) = 1
             /\ {req \in Requests : Permits(o, req)} = {UsePolicy}
    /\ \A rb \in objects :
          rb.kind = "RoleBinding" =>
             /\ SubjectsOf(rb) = {[Kind |-> "ServiceAccount",
                                   Name |-> PSPResourceName(task[rb.owner].ID),
                                   Namespace |-> rb.ns]}
             /\ \E sa \in objects :
                   /\ sa.kind = "ServiceAccount" /\ sa.owner = rb.owner
                   /\ sa.cluster = rb.cluster
                   /\ \A sub \in SubjectsOf(rb) : sa.ns = sub.Namespace /\ sa.name = sub.Name
             /\ rb.spec.RoleRef.Kind = "Role"
             /\ rb.spec.RoleRef.APIGroup = "rbac.authorization.k8s.io"
             /\ \E role \in objects :
                   /\ role.kind = "Role" /\ role.owner = rb.owner
                   /\ role.cluster = rb.cluster /\ role.ns = rb.ns
                   /\ role.name = rb.spec.RoleRef.Name

\* two instances hold grants in the same namespace, and one of them holds
\* grants in two places
C14_Witness ==
    /\ \E rb1, rb2 \in objects :
          /\ rb1.kind = "RoleBinding" /\ rb2.kind = "RoleBinding"
          /\ rb1.owner # rb2.owner /\ rb1.cluster = rb2.cluster /\ rb1.ns = rb2.ns
    /\ \E rb1, rb2 \in objects :
          /\ rb1.kind = "RoleBinding" /\ rb2.kind = "RoleBinding"
          /\ rb1.owner = rb2.owner /\ rb1 # rb2

(***************************************************************************)
(* C15.  Step ordering of RunRsyncJobOverSSH: what an instance has done so *)
(* far is always a beginning of this sequence, each step but the last one  *)
(* done having succeeded: the access grants of the source, then those of   *)
(* the destination (each only when its option is set), the key pair, the   *)
(* public-key secret at the source, the sshd pod created, the pod seen     *)
(* running, the service, its address, the private-key secret at the        *)
(* destination, the rsync job, the job seen completed.  So the job is      *)
(* created only after all the steps before it, and the function has        *)
(* returned nil only after the job was seen to have succeeded.             *)
(***************************************************************************)
StepOf(e) == <<e.call, e.kind, [cluster |-> e.cluster, ns |-> e.ns], e.name>>

GrantSteps(enabled, p, id) ==
    IF enabled
      THEN << <<"create", "PodSecurityPolicy", Place(p.cluster, ""), pspName>>,
              <<"create", "ServiceAccount", p, PSPResourceName(id)>>,
              <<"create", "Role", p, PSPResourceName(id)>>,
              <<"create", "RoleBinding", p, PSPResourceName(id)>> >>
      ELSE << >>

ExpectedSteps(t) ==
    LET id == task[t].ID
        s == task[t].src
        d == task[t].dst
    IN  GrantSteps(task[t].SourceCreatePSP, s, id) \o
        GrantSteps(task[t].DestCreatePSP, d, id) \o
        << <<"keygen", "", s, "">>,
           <<"create", "Secret", s, SshdName(id)>>,
           <<"create", "Pod", s, SshdName(id)>>,
           <<"wait pod", "", s, "">>,
           <<"create", "Service", s, SshdName(id)>>,
           <<"get address", "", s, "">>,
           <<"create", "Secret", d, RsyncName(id)>>,
           <<"create", "Job", d, RsyncName(id)>>,
           <<"wait job", "", d, "">> >>

StepSucceeded(e) ==
    \/ e.res \in {"Created", "ok", "Running", "Assigned", "Succeeded"}
    \/ IsCreate(e, "PodSecurityPolicy") /\ e.res = "AlreadyExists"

C15_StepOrdering ==
    \A t \in Tasks :
       LET expected == ExpectedSteps(t) IN
       /\ Len(log[t]) <= Len(expected)
       /\ \A i \in Entries(t) :
             /\ StepOf(log[t][i]) = expected[i]
             /\ i < Len(log[t]) => StepSucceeded(log[t][i])
       /\ JobOf(objects, t) # {} =>
             /\ Len(log[t]) >= Len(expected) - 1
             /\ log[t][Len(expected) - 1].res = "Created"
       /\ ret[t] = Returned(NoErr) =>
             /\ Len(log[t]) = Len(expected)
             /\ Last(log[t]).call = "wait job" /\ Last(log[t]).res = "Succeeded"
             /\ \E job \in JobOf(objects, t) : JobSucceeded(job)

\* an instance with both options set, migrating to another cluster, has
\* returned nil
C15_Witness ==
    \E t \in Tasks :
       /\ task[t].SourceCreatePSP /\ task[t].DestCreatePSP
       /\ task[t].dst.cluster = "c2"
       /\ ret[t] = Returned(NoErr)
       /\ Len(log[t]) = Len(ExpectedSteps(t))

(***************************************************************************)
(* C16.  Within one attempt the copy tool is invoked at most maxRetries =  *)
(* 10 times in total: the instance creates at most one rsync job, the job  *)
(* has backoff limit 0 and restart policy Never and carries the script     *)
(* with MaxRetries = 10, so the job runs at most one pod, the script runs  *)
(* at most once, and all invocations of the copy tool by the pods of the   *)
(* attempt together are at most 10.                                        *)
(***************************************************************************)
RECURSIVE InvocationsIn(_)
InvocationsIn(runs) ==
    IF runs = <<>> THEN 0 ELSE runs[1].invocations + InvocationsIn(Tail(runs))

JobCreates(t) == {i \in Entries(t) : IsCreate(log[t][i], "Job")}

C16_AtMostMaxRetriesInvocations ==
    \A t \in Tasks :
       /\ Cardinality(JobCreates(t)) <= 1
       /\ Cardinality(JobOf(objects, t)) <= 1
       /\ \A job \in JobOf(objects, t) :
             /\ job.spec.BackoffLimit = 0
             /\ job.spec.RestartPolicy = "Never"
             /\ job.spec.Script.MaxRetries = maxRetries
             /\ Len(job.status.Runs) <= 1
             /\ InvocationsIn(job.status.Runs) <= maxRetries

\* the one pod of the job has run the script, which gave up after the copy
\* tool failed maxRetries times, and the job has failed for good
C16_Witness ==
    \E t \in Tasks : \E job \in JobOf(objects, t) :
       /\ InvocationsIn(job.status.Runs) = maxRetries
       /\ JobPhase(job) = "Failed"
       /\ ret[t] = Returned([reason |-> "Failed", kind |-> "", name |-> ""])

(***************************************************************************)
(* C17.  No self-conflict: an instance never sends two Creates for the     *)
(* same cluster, namespace, kind and name of an object of its own, and so  *)
(* never returns the "already exists" error of an object that it created   *)
(* itself; this for every task, the one with source and destination claim  *)
(* in the same namespace and both options set included.  (The Creates of   *)
(* the shared policy, which ensurePSP repeats by design, are left aside.)  *)
(***************************************************************************)
KeyOfEntry(e) == <<e.cluster, e.ns, e.kind, e.name>>
OwnCreates(t) ==
    {i \in Entries(t) : log[t][i].call = "create" /\ log[t][i].kind # "PodSecurityPolicy"}

C17_NoSelfConflict ==
    \A t \in Tasks :
       /\ \A i, j \in OwnCreates(t) :
             KeyOfEntry(log[t][i]) = KeyOfEntry(log[t][j]) => i = j
       /\ (ret[t].done /\ IsAlreadyExists(ret[t].err)) =>
             ~\E o \in OwnObjects :
                 o.owner = t /\ o.kind = ret[t].err.kind /\ o.name = ret[t].err.name

(***************************************************************************)
(* C18.  Fail-fast inside an attempt: a step of RunRsyncJobOverSSH that    *)
(* ended with an error is the last thing the instance did, and the         *)
(* function has returned that very error; the function has returned nil    *)
(* only when every step succeeded, the wait for the job included.  After   *)
(* a failed key generation the instance has no secret, pod, service or     *)
(* job; after a failed address lookup it has no private-key secret and no  *)
(* job.                                                                    *)
(***************************************************************************)
OwnedOfKind(t, kinds) == {o \in objects : o.owner = t /\ o.kind \in kinds}

C18_FailFast ==
    \A t \in Tasks :
       /\ \A i \in Entries(t) :
             LET e == log[t][i] IN
             ~StepSucceeded(e) =>
                /\ i = Len(log[t])
                /\ ret[t] = Returned(ErrorOfEntry(e))
                /\ pc[t] = "done"
                /\ e.call = "keygen" =>
                      OwnedOfKind(t, {"Secret", "Pod", "Service", "Job"}) = {}
                /\ e.call = "get address" =>
                      /\ OwnedOfKind(t, {"Job"}) = {}
                      /\ Holders(PrivateKeyOf(task[t].ID)) = {}
       /\ ret[t].done =>
             /\ log[t] # <<>>
             /\ ret[t].err = NoErr <=> \A i \in Entries(t) : StepSucceeded(log[t][i])
             /\ ret[t].err = NoErr => Len(log[t]) = Len(ExpectedSteps(t))
       /\ ~ret[t].done => \A i \in Entries(t) : StepSucceeded(log[t][i])

\* the address of the service could not be resolved: the instance returned
\* the error, and there is no private-key secret and no job; and another
\* instance failed to generate its keys after its grants were created
C18_Witness ==
    /\ \E t \in Tasks :
          /\ log[t] # <<>>
          /\ Last(log[t]).call = "get address" /\ Last(log[t]).res = "TimeoutError"
          /\ ret[t] = Returned([reason |-> "TimeoutError", kind |-> "", name |-> ""])
          /\ OwnedOfKind(t, {"Service"}) # {}
    /\ \E t \in Tasks :
          /\ log[t] # <<>>
          /\ Last(log[t]).call = "keygen" /\ ret[t].err.reason = "KeyGenerationError"
          /\ OwnedOfKind(t, {"RoleBinding"}) # {}


=============================================================================
